---- MODULE Spec2Model ----
(***************************************************************************)
(* State-machine model of gakuya_bot.py: the text post-processing of the   *)
(* two generators, the post cycle, the reply cycle and the scheduler loop. *)
(* Texts are sequences of one-character strings; post ids are positive     *)
(* naturals and None is 0 (both are falsy for Python's `not`).             *)
(***************************************************************************)
EXTENDS Integers, Sequences, FiniteSets, TLC

VARIABLES
    file,           \* content of last_tweet_id.json
    last_tweet_id,  \* the nonlocal of run_bot that job() assigns
    bound_id,       \* the argument bound to the periodic check_and_reply
    own_latest,     \* platform: id of the account's most recent post (0: none)
    next_id,        \* platform: the id the next post or mention gets
    mentions,       \* platform: the mentions of the account
    loop,           \* the while-True loop of run_bot: "running" or "dead"
    obs,            \* what the last dispatched handler did
    tr,             \* the text being post-processed (pure-function runs)
    boot,           \* the import of the module: secrets, clients, outcome
    hist            \* history of the runs (recorded by the *Recorded actions)

vars == <<file, last_tweet_id, bound_id, own_latest, next_id, mentions, loop, obs, tr,
          boot, hist>>

None == 0

\* ---------------------------------------------------------------- bounds
MaxTextLen == 310       \* longest text the generation backend returns
MaxId == 5              \* last id the platform hands out
MaxMentions == 2        \* most mentions present on the platform

\* ------------------------------------------------------ program constants
TweetLimit == 280
CutLimit == 277

\* ------------------------------------------------------------------ text
SP == " "
NL == "\n"
Ellipsis == <<".", ".", ".">>

\* str.isspace for the characters of the model
IsSpace(c) == c \in {SP, NL}

\* s[:k] for k >= 0
Slice(s, k) == SubSeq(s, 1, IF k < Len(s) THEN k ELSE Len(s))

\* s.rfind(c): the highest 0-based index of c in s, -1 when absent
RFind(s, c) ==
    LET hits == {i \in 1..Len(s) : s[i] = c}
    IN  IF hits = {} THEN -1
        ELSE (CHOOSE i \in hits : \A j \in hits : j <= i) - 1

\* s.strip()
Strip(s) ==
    IF \A i \in 1..Len(s) : IsSpace(s[i]) THEN <<>>
    ELSE LET first == CHOOSE i \in 1..Len(s) :
                        ~IsSpace(s[i]) /\ \A j \in 1..(i - 1) : IsSpace(s[j])
             last  == CHOOSE i \in 1..Len(s) :
                        ~IsSpace(s[i]) /\ \A j \in (i + 1)..Len(s) : IsSpace(s[j])
         IN  SubSeq(s, first, last)

\* A response of the generation backend: the call failed, or it returned text.
GenFail == [ok |-> FALSE, text |-> <<>>]
GenOk(t) == [ok |-> TRUE, text |-> t]

\* variant: cuts within the first 280 characters instead of the first 277
generate_weather_post_cut280(resp) ==
    IF ~resp.ok THEN GenFail
    ELSE LET post == Strip(resp.text)
         IN  IF Len(post) > TweetLimit
             THEN LET found == RFind(Slice(post, TweetLimit), SP)
                      last_space == IF found = -1 THEN TweetLimit ELSE found
                  IN  GenOk(Slice(post, last_space) \o Ellipsis)
             ELSE GenOk(post)

\* generate_weather_post: None on failure, else the stripped text, cut when
\* it is longer than 280 characters.
generate_weather_post(resp) ==
    IF ~resp.ok THEN GenFail
    ELSE LET post == Strip(resp.text)
         IN  IF Len(post) > TweetLimit
             THEN LET found == RFind(Slice(post, CutLimit), SP)
                      last_space == IF found = -1 THEN CutLimit ELSE found
                  IN  GenOk(Slice(post, last_space) \o Ellipsis)
             ELSE GenOk(post)

\* variant: cuts every text longer than 277 characters
generate_reply_cut_early(resp) ==
    IF ~resp.ok THEN GenFail
    ELSE LET reply == Strip(resp.text)
         IN  IF Len(reply) > CutLimit
             THEN LET found == RFind(Slice(reply, CutLimit), SP)
                      last_space == IF found = -1 THEN CutLimit ELSE found
                  IN  GenOk(Slice(reply, last_space) \o Ellipsis)
             ELSE GenOk(reply)

\* generate_reply: the same post-processing, on the reply text.
generate_reply(resp) ==
    IF ~resp.ok THEN GenFail
    ELSE LET reply == Strip(resp.text)
         IN  IF Len(reply) > TweetLimit
             THEN LET found == RFind(Slice(reply, CutLimit), SP)
                      last_space == IF found = -1 THEN CutLimit ELSE found
                  IN  GenOk(Slice(reply, last_space) \o Ellipsis)
             ELSE GenOk(reply)

\* --------------------------------------------- texts the backend returns
\* A text of n letters with the characters c1, c2 at the (1-based) places
\* p1, p2; place 0 is no place.
MkText(n, p1, c1, p2, c2) ==
    [i \in 1..n |-> IF i = p1 THEN c1 ELSE IF i = p2 THEN c2 ELSE "a"]

TextLens == {0, 1, 5, CutLimit, CutLimit + 1, TweetLimit - 1, TweetLimit,
             TweetLimit + 1, TweetLimit + 2, MaxTextLen}
WsPlaces == {0, 1, 2, 151, CutLimit - 1, CutLimit, CutLimit + 1,
             TweetLimit, TweetLimit + 1, MaxTextLen}
WsChars == {SP, NL}

RawTexts ==
    {MkText(n, p1, c1, p2, c2) :
        n \in TextLens, p1 \in WsPlaces, c1 \in WsChars, p2 \in WsPlaces, c2 \in WsChars}

\* ------------------------------------------------------------ file store
NoFile == [kind |-> "missing", id |-> None]
Corrupt == [kind |-> "corrupt", id |-> None]
Stored(id) == [kind |-> "valid", id |-> id]

\* variant: a file that cannot be read still yields the id written to it
load_last_tweet_id_ignores_read_error(f, readable) ==
    IF f.kind = "valid" THEN f.id ELSE None

\* load_last_tweet_id: the stored id, None when the file is missing, cannot
\* be read or does not parse.
load_last_tweet_id(f, readable) ==
    IF f.kind = "valid" /\ readable THEN f.id ELSE None

\* variant: a file that holds an id is not written again
save_last_tweet_id_keeps_first(f, tweet_id, s) ==
    CASE s = "ok" -> IF f.kind = "valid" THEN f ELSE Stored(tweet_id)
      [] s = "openfail" -> f
      [] s = "writefail" -> Corrupt

\* save_last_tweet_id: open(..., 'w') then json.dump; every failure is logged
\* and swallowed. A failed open leaves the file, a failed write leaves it cut.
save_last_tweet_id(f, tweet_id, s) ==
    CASE s = "ok" -> Stored(tweet_id)
      [] s = "openfail" -> f
      [] s = "writefail" -> Corrupt

\* ------------------------------------------- the backend in the cycles
\* In the cycles the backend answers with one of a few responses, named by
\* kind; the generators' results for them are tabulated once.
ShortText == MkText(5, 0, SP, 0, SP)
FullText == MkText(TweetLimit, 0, SP, 0, SP)
LongText == MkText(MaxTextLen, 151, SP, 0, SP)

Response(k) ==
    CASE k = "fail" -> GenFail
      [] k = "short" -> GenOk(ShortText)
      [] k = "full" -> GenOk(FullText)
      [] k = "long" -> GenOk(LongText)

PostKinds == {"fail", "short", "long"}
ReplyKinds == {"fail", "short", "full"}

WeatherPosts == {[kind |-> k, out |-> generate_weather_post(Response(k))] : k \in PostKinds}
Replies == {[kind |-> k, out |-> generate_reply(Response(k))] : k \in ReplyKinds}

\* generate_weather_post(temp, description) when the backend answers with k
weather_post_for(k) == (CHOOSE e \in WeatherPosts : e.kind = k).out
\* generate_reply(comment) when the backend answers with k
reply_for(k) == (CHOOSE e \in Replies : e.kind = k).out

\* mention.user.screen_name
Handles == {<<"u">>}

\* ------------------------------------------------------------ post cycle
\* get_weather: TRUE when (temp, description) came back, FALSE for (None, None)
get_weather(w) == w = "ok"

\* variant: writes the store also when the publish failed
post_weather_update_saves_early(f, nid, w, g, p, s) ==
    LET quit(stage, handed, created, left) ==
            [ret |-> None, file |-> left, stage |-> stage, handed |-> handed,
             created |-> created, save |-> "none"]
    IN  IF ~get_weather(w) THEN quit("weather", <<>>, FALSE, f)
        ELSE LET post == weather_post_for(g)
             IN  IF ~post.ok THEN quit("generate", <<>>, FALSE, f)
                 ELSE IF p = "ok"
                      THEN [ret |-> nid, file |-> save_last_tweet_id(f, nid, s),
                            stage |-> "done", handed |-> <<post.text>>,
                            created |-> TRUE, save |-> s]
                      ELSE quit("publish", <<post.text>>, FALSE,
                                save_last_tweet_id(f, None, "ok"))

\* variant: does not check the generated post for None
post_weather_update_posts_none(f, nid, w, g, p, s) ==
    LET quit(stage, handed, created) ==
            [ret |-> None, file |-> f, stage |-> stage, handed |-> handed,
             created |-> created, save |-> "none"]
    IN  IF ~get_weather(w) THEN quit("weather", <<>>, FALSE)
        ELSE LET post == weather_post_for(g)
             IN  IF p = "ok"
                 THEN [ret |-> nid, file |-> save_last_tweet_id(f, nid, s),
                       stage |-> "done", handed |-> <<post.text>>,
                       created |-> TRUE, save |-> s]
                 ELSE quit("publish", <<post.text>>, FALSE)

\* variant: the published id is returned only when it could be saved
post_weather_update_needs_save(f, nid, w, g, p, s) ==
    LET quit(stage, handed, created) ==
            [ret |-> None, file |-> f, stage |-> stage, handed |-> handed,
             created |-> created, save |-> "none"]
    IN  IF ~get_weather(w) THEN quit("weather", <<>>, FALSE)
        ELSE LET post == weather_post_for(g)
             IN  IF ~post.ok THEN quit("generate", <<>>, FALSE)
                 ELSE IF p = "ok"
                      THEN [ret |-> IF s = "ok" THEN nid ELSE None,
                            file |-> save_last_tweet_id(f, nid, s),
                            stage |-> "done", handed |-> <<post.text>>,
                            created |-> TRUE, save |-> s]
                      ELSE quit("publish", <<post.text>>, FALSE)

\* post_weather_update. nid is the id the platform gives the tweet when it
\* is created.
post_weather_update(f, nid, w, g, p, s) ==
    LET quit(stage, handed, created) ==
            [ret |-> None, file |-> f, stage |-> stage, handed |-> handed,
             created |-> created, save |-> "none"]
    IN  IF ~get_weather(w) THEN quit("weather", <<>>, FALSE)
        ELSE LET post == weather_post_for(g)
             IN  IF ~post.ok THEN quit("generate", <<>>, FALSE)
                 ELSE IF p = "ok"
                      THEN [ret |-> nid, file |-> save_last_tweet_id(f, nid, s),
                            stage |-> "done", handed |-> <<post.text>>,
                            created |-> TRUE, save |-> s]
                      ELSE quit("publish", <<post.text>>, FALSE)

\* ----------------------------------------------------------- reply cycle
\* get_latest_tweet_id: the first of the account's tweets, None when there is
\* none or the lookup raised
get_latest_tweet_id(l, own) == IF l = "ok" THEN own ELSE None

\* api.mentions_timeline(since_id=b), newest first
mentions_timeline(ms, b) ==
    LET got == {m \in ms : m.id > b}
        Newest[S \in SUBSET got] ==
            IF S = {} THEN <<>>
            ELSE LET top == CHOOSE m \in S : \A o \in S : o.id <= m.id
                 IN  <<top>> \o Newest[S \ {top}]
    IN  Newest[got]

\* variant: leaves the loop at the first generation failure
RECURSIVE reply_each_stops(_, _, _)
reply_each_stops(ms, t, how) ==
    IF ms = <<>> THEN <<>>
    ELSE LET mention == Head(ms)
             reply == reply_for(IF how[mention.id] = "genfail" THEN "fail" ELSE t)
             text == <<"@">> \o mention.username \o <<SP>> \o reply.text
         IN  IF ~reply.ok
             THEN <<[to |-> mention.id, handed |-> FALSE, len |-> 0, sent |-> FALSE]>>
             ELSE <<[to |-> mention.id, handed |-> TRUE, len |-> Len(text),
                     sent |-> how[mention.id] = "sent"]>>
                  \o reply_each_stops(Tail(ms), t, how)

\* the for loop of check_and_reply over the mentions read; how[id] is what
\* happens for the mention: the generation fails ("genfail"), or the backend
\* answers with t and the publish raises ("pubfail") or succeeds ("sent")
RECURSIVE reply_each(_, _, _)
reply_each(ms, t, how) ==
    IF ms = <<>> THEN <<>>
    ELSE LET mention == Head(ms)
             reply == reply_for(IF how[mention.id] = "genfail" THEN "fail" ELSE t)
             text == <<"@">> \o mention.username \o <<SP>> \o reply.text
             done == IF ~reply.ok
                     THEN [to |-> mention.id, handed |-> FALSE, len |-> 0,
                           sent |-> FALSE]
                     ELSE [to |-> mention.id, handed |-> TRUE, len |-> Len(text),
                           sent |-> how[mention.id] = "sent"]
         IN  <<done>> \o reply_each(Tail(ms), t, how)

\* variant: no fallback to the stored id
baseline_of_skips_store(arg, f, own, l, readable) ==
    IF arg # None THEN arg ELSE get_latest_tweet_id(l, own)

\* the baseline check_and_reply reads mentions since: its argument, else the
\* account's latest tweet, else the stored id, else None (the cycle returns)
baseline_of(arg, f, own, l, readable) ==
    IF arg # None THEN arg
    ELSE IF get_latest_tweet_id(l, own) # None THEN get_latest_tweet_id(l, own)
    ELSE load_last_tweet_id(f, readable)

\* variant: without a baseline the mentions are read from the beginning
read_mentions_without_baseline(arg, f, own, ms, l, readable, m) ==
    LET last == baseline_of(arg, f, own, l, readable)
        read == IF m # "fail" THEN "ok" ELSE "failed"
    IN  [arg |-> arg, baseline |-> last, read |-> read,
         got |-> IF read = "ok" THEN mentions_timeline(ms, last) ELSE <<>>]

\* check_and_reply(arg) up to its for loop: the baseline it resolved and
\* the mentions it read since that baseline
read_mentions(arg, f, own, ms, l, readable, m) ==
    LET last == baseline_of(arg, f, own, l, readable)
        read == IF last = None THEN "skipped"
                ELSE IF m = "ok" THEN "ok" ELSE "failed"
    IN  [arg |-> arg, baseline |-> last, read |-> read,
         got |-> IF read = "ok" THEN mentions_timeline(ms, last) ELSE <<>>]

SeqIds(got) == {got[k].id : k \in 1..Len(got)}

\* ------------------------------------------------------- the environment
\* the outcomes of the calls of one post_weather_update; a call it does not
\* make is "unused"
PostRuns ==
    {[w |-> "fail", g |-> "unused", p |-> "unused", s |-> "unused"]}
    \cup {[w |-> "ok", g |-> "fail", p |-> "unused", s |-> "unused"]}
    \cup {[w |-> "ok", g |-> g, p |-> "fail", s |-> "unused"] :
             g \in PostKinds \ {"fail"}}
    \cup {[w |-> "ok", g |-> g, p |-> "ok", s |-> s] :
             g \in PostKinds \ {"fail"}, s \in {"ok", "openfail", "writefail"}}

\* the outcomes of the lookups of one check_and_reply; a lookup it does not
\* make is "unused", and outcomes it cannot tell apart are not varied
ReplyRuns(arg, f, own) ==
    {d \in [l : {"ok", "fail", "unused"}, readable : BOOLEAN,
            m : {"ok", "fail", "unused"}] :
        /\ d.l = "unused" <=> arg # None
        /\ own = None => d.l # "fail"
        /\ (arg # None \/ get_latest_tweet_id(d.l, own) # None \/ f.kind # "valid")
              => d.readable
        /\ d.m = "unused" <=> baseline_of(arg, f, own, d.l, d.readable) = None}

\* the backend's answers that differ for the mentions read
ReplyTexts(got) == IF got = <<>> THEN {"short"} ELSE ReplyKinds \ {"fail"}

MentionRuns == {"genfail", "pubfail", "sent"}

NoPost == [stage |-> "none", ret |-> None, handed |-> 0, len |-> 0, save |-> "none",
           env |-> [w |-> "unused", g |-> "unused", p |-> "unused", s |-> "unused"]]
NoReply == [arg |-> None, baseline |-> None, read |-> "none", got |-> {},
            tried |-> {}, handed |-> {}, sent |-> {}, maxlen |-> 0,
            env |-> [l |-> "unused", readable |-> TRUE, m |-> "unused"], how |-> <<>>]
Idle == [op |-> "none", post |-> NoPost, reply |-> NoReply]

\* what a post_weather_update did, under the outcomes c of its calls
PostObs(pr, c) ==
    [stage |-> pr.stage, ret |-> pr.ret, handed |-> Len(pr.handed),
     len |-> IF pr.handed = <<>> THEN 0 ELSE Len(pr.handed[1]),
     save |-> pr.save, env |-> c]

\* what a check_and_reply did, under the outcomes d, how of its calls
ReplyObs(rd, done, d, how) ==
    LET at(S) == {done[k].to : k \in S}
        lens == {done[k].len : k \in 1..Len(done)}
    IN  [arg |-> rd.arg, baseline |-> rd.baseline, read |-> rd.read,
         got |-> SeqIds(rd.got),
         tried |-> at(1..Len(done)),
         handed |-> at({k \in 1..Len(done) : done[k].handed}),
         sent |-> at({k \in 1..Len(done) : done[k].sent}),
         maxlen |-> IF lens = {} THEN 0 ELSE CHOOSE n \in lens : \A o \in lens : o <= n,
         env |-> d, how |-> how]

\* variant: no try/except around run_pending
after_dispatch_uncaught(raised) == IF raised THEN "dead" ELSE "running"

\* the while-True loop of run_bot after one run_pending: a fault raised in
\* the dispatch is caught and logged, and the loop goes on
after_dispatch(raised) == "running"

\* ---------------------------------------------------------------- startup
\* the six keys the module reads from the environment
Secrets ==
    {"COHERE_API_KEY", "OPENWEATHER_API_KEY", "X_API_KEY", "X_API_SECRET",
     "X_ACCESS_TOKEN", "X_ACCESS_TOKEN_SECRET"}

Clients == {"co", "api", "client"}

\* the outcomes of the calls the import makes: the Cohere client, the Tweepy
\* clients, get_me; a call it does not make is "unused"
NoStartRun == [co |-> "unused", tw |-> "unused", me |-> "unused"]
StartRuns(present) ==
    IF present # Secrets THEN {NoStartRun}
    ELSE {[co |-> "fail", tw |-> "unused", me |-> "unused"],
          [co |-> "ok", tw |-> "fail", me |-> "unused"],
          [co |-> "ok", tw |-> "ok", me |-> "fail"],
          [co |-> "ok", tw |-> "ok", me |-> "ok"]}

\* variant: any() for all() in the validation of the keys
startup_any_key(present, c) ==
    IF present = {} THEN [raised |-> "ValueError", clients |-> {}]
    ELSE IF c.co = "fail" THEN [raised |-> "cohere", clients |-> {}]
    ELSE IF c.tw = "fail" THEN [raised |-> "tweepy", clients |-> {"co"}]
    ELSE IF c.me = "fail" THEN [raised |-> "get_me", clients |-> Clients]
    ELSE [raised |-> "none", clients |-> Clients]

\* variant: a failed get_me is logged and not raised again
startup_swallows_get_me(present, c) ==
    IF present # Secrets THEN [raised |-> "ValueError", clients |-> {}]
    ELSE IF c.co = "fail" THEN [raised |-> "cohere", clients |-> {}]
    ELSE IF c.tw = "fail" THEN [raised |-> "tweepy", clients |-> {"co"}]
    ELSE [raised |-> "none", clients |-> Clients]

\* the import of the module: the keys are validated, then the clients are
\* built and get_me is called, each in a try whose except logs and raises
startup(present, c) ==
    IF present # Secrets THEN [raised |-> "ValueError", clients |-> {}]
    ELSE IF c.co = "fail" THEN [raised |-> "cohere", clients |-> {}]
    ELSE IF c.tw = "fail" THEN [raised |-> "tweepy", clients |-> {"co"}]
    ELSE IF c.me = "fail" THEN [raised |-> "get_me", clients |-> Clients]
    ELSE [raised |-> "none", clients |-> Clients]

Scheduled == {"job", "check_and_reply"}

\* the module before its import
Importing(present) ==
    [stage |-> "import", secrets |-> present, clients |-> {}, scheduled |-> {},
     env |-> NoStartRun, raised |-> "none"]

\* the module after its import under the outcomes c, and run_bot's schedule
Imported(present, c) ==
    LET st == startup(present, c)
    IN  [stage |-> "done", secrets |-> present, clients |-> st.clients,
         scheduled |-> IF st.raised = "none" THEN Scheduled ELSE {},
         env |-> c, raised |-> st.raised]

\* ---------------------------------------------------------------- history
\* posted: some publish of a weather post succeeded; saved: every save so
\* far succeeded; replied: the mentions answered in this run; again: those
\* answered more than once in this run
NoHist == [posted |-> FALSE, saved |-> TRUE, replied |-> {}, again |-> {}]

Recorded(h, o) ==
    [posted |-> h.posted \/ o.post.stage = "done",
     saved |-> h.saved /\ o.post.save \in {"none", "ok"},
     replied |-> h.replied \cup o.reply.sent,
     again |-> h.again \cup (h.replied \cap o.reply.sent)]

\* ------------------------------------------------------------ operations
\* run_bot up to the loop: the stored id is loaded once; job() closes over
\* last_tweet_id, the periodic check_and_reply is bound to its value now.
Init ==
    /\ file \in {NoFile, Corrupt, Stored(1)}
    /\ own_latest \in {None, 1, 2}
    /\ next_id = 3
    /\ mentions = {}
    /\ last_tweet_id = load_last_tweet_id(file, TRUE)
    /\ bound_id = load_last_tweet_id(file, TRUE)
    /\ loop = "running"
    /\ obs = Idle
    /\ tr = [phase |-> "idle", fn |-> "none", text |-> <<>>, out |-> GenFail]
    /\ boot = Imported(Secrets, [co |-> "ok", tw |-> "ok", me |-> "ok"])
    /\ hist = NoHist

\* job(): last_tweet_id = post_weather_update(); check_and_reply(last_tweet_id)
job ==
    /\ loop = "running"
    /\ \E c \in PostRuns :
         LET pr == post_weather_update(file, next_id, c.w, c.g, c.p, c.s)
             own1 == IF pr.created THEN next_id ELSE own_latest
         IN  /\ pr.created => next_id <= MaxId
             /\ \E d \in ReplyRuns(pr.ret, pr.file, own1) :
                  LET rd == read_mentions(pr.ret, pr.file, own1, mentions,
                                          d.l, d.readable, d.m)
                  IN  \E t \in ReplyTexts(rd.got), how \in [SeqIds(rd.got) -> MentionRuns] :
                        /\ last_tweet_id' = pr.ret
                        /\ file' = pr.file
                        /\ next_id' = IF pr.created THEN next_id + 1 ELSE next_id
                        /\ own_latest' = own1
                        /\ obs' = [op |-> "job", post |-> PostObs(pr, c),
                                   reply |-> ReplyObs(rd, reply_each(rd.got, t, how),
                                                      d, how)]
    /\ loop' = after_dispatch(FALSE)
    /\ UNCHANGED <<bound_id, mentions, tr, boot>>

Job == job /\ UNCHANGED hist

\* variant: the cycle keeps the baseline it used as the last id
check_and_reply_keeps_baseline ==
    /\ loop = "running"
    /\ \E d \in ReplyRuns(bound_id, file, own_latest) :
         LET rd == read_mentions(bound_id, file, own_latest, mentions,
                                 d.l, d.readable, d.m)
         IN  \E t \in ReplyTexts(rd.got), how \in [SeqIds(rd.got) -> MentionRuns] :
               /\ obs' = [op |-> "check", post |-> NoPost,
                          reply |-> ReplyObs(rd, reply_each(rd.got, t, how), d, how)]
               /\ last_tweet_id' = rd.baseline
    /\ loop' = after_dispatch(FALSE)
    /\ UNCHANGED <<file, bound_id, own_latest, next_id, mentions, tr, boot>>

\* the periodic job: check_and_reply(bound_id)
check_and_reply ==
    /\ loop = "running"
    /\ \E d \in ReplyRuns(bound_id, file, own_latest) :
         LET rd == read_mentions(bound_id, file, own_latest, mentions,
                                 d.l, d.readable, d.m)
         IN  \E t \in ReplyTexts(rd.got), how \in [SeqIds(rd.got) -> MentionRuns] :
               obs' = [op |-> "check", post |-> NoPost,
                       reply |-> ReplyObs(rd, reply_each(rd.got, t, how), d, how)]
    /\ loop' = after_dispatch(FALSE)
    /\ UNCHANGED <<file, last_tweet_id, bound_id, own_latest, next_id, mentions, tr, boot>>

PeriodicCheck == check_and_reply /\ UNCHANGED hist

\* somebody mentions the account
NewMention ==
    /\ Cardinality(mentions) < MaxMentions
    /\ next_id <= MaxId
    /\ \E h \in Handles :
         mentions' = mentions \cup {[id |-> next_id, username |-> h]}
    /\ next_id' = next_id + 1
    /\ UNCHANGED <<file, last_tweet_id, bound_id, own_latest, loop, obs, tr, boot, hist>>

\* schedule.run_pending() raises an unexpected fault before a job has run
DispatchFault ==
    /\ loop = "running"
    /\ loop' = after_dispatch(TRUE)
    /\ obs' = [op |-> "fault", post |-> NoPost, reply |-> NoReply]
    /\ UNCHANGED <<file, last_tweet_id, bound_id, own_latest, next_id, mentions, tr, boot, hist>>

Next == Job \/ PeriodicCheck \/ NewMention \/ DispatchFault

Spec == Init /\ [][Next]_vars

\* The loop on a platform with at most one mention, started with a stored id.
LoopInit == Init /\ file = Stored(1)

FirstMention == mentions = {} /\ NewMention

LoopNext == Job \/ PeriodicCheck \/ FirstMention \/ DispatchFault

\* run_pending fires each scheduled job again and again while the loop runs
FairSpec ==
    LoopInit /\ [][LoopNext]_vars /\ WF_vars(Job) /\ WF_vars(PeriodicCheck)

\* ------------------------------------------------------ runs from import
\* The process before the import of the module, with any of the keys set.
BootInit ==
    /\ file \in {NoFile, Corrupt, Stored(1)}
    /\ own_latest \in {None, 1, 2}
    /\ next_id = 3
    /\ mentions = {}
    /\ last_tweet_id = None
    /\ bound_id = None
    /\ loop = "boot"
    /\ obs = Idle
    /\ tr = [phase |-> "idle", fn |-> "none", text |-> <<>>, out |-> GenFail]
    /\ \E present \in SUBSET Secrets : boot = Importing(present)
    /\ hist = NoHist

\* the import and run_bot up to its loop, under the outcomes c of the calls
\* of the import; an exception of the import ends the process
start(c) ==
    LET b == Imported(boot.secrets, c)
        up == b.raised = "none"
    IN  /\ boot' = b
        /\ loop' = IF up THEN "running" ELSE "exited"
        /\ last_tweet_id' = IF up THEN load_last_tweet_id(file, TRUE) ELSE None
        /\ bound_id' = IF up THEN load_last_tweet_id(file, TRUE) ELSE None

Startup ==
    /\ loop = "boot"
    /\ \E c \in StartRuns(boot.secrets) : start(c)
    /\ UNCHANGED <<file, own_latest, next_id, mentions, obs, tr, hist>>

BootNext == Startup \/ Job \/ PeriodicCheck \/ FirstMention \/ DispatchFault

BootSpec == BootInit /\ [][BootNext]_vars

\* ---------------------------------------------------- runs with restarts
JobRecorded == job /\ hist' = Recorded(hist, obs')

PeriodicCheckRecorded == check_and_reply /\ hist' = Recorded(hist, obs')

\* the process is stopped and started again: what is in memory is lost, the
\* file and the platform stay
Restart ==
    /\ loop = "running"
    /\ \E c \in StartRuns(boot.secrets) : start(c)
    /\ obs' = [op |-> "start", post |-> NoPost, reply |-> NoReply]
    /\ hist' = [hist EXCEPT !.replied = {}, !.again = {}]
    /\ UNCHANGED <<file, own_latest, next_id, mentions, tr>>

RunsNext == JobRecorded \/ PeriodicCheckRecorded \/ FirstMention \/ Restart

RunsSpec == Init /\ [][RunsNext]_vars

\* ---------------------------------------------------- pure-function runs
\* The state of the bot while only the text post-processing is exercised.
Quiet ==
    /\ file = NoFile
    /\ last_tweet_id = None
    /\ bound_id = None
    /\ own_latest = None
    /\ next_id = 1
    /\ mentions = {}
    /\ loop = "running"
    /\ obs = Idle
    /\ boot = Imported(Secrets, [co |-> "ok", tw |-> "ok", me |-> "ok"])
    /\ hist = NoHist

TruncInit ==
    /\ Quiet
    /\ \E t \in RawTexts :
          tr = [phase |-> "in", fn |-> "none", text |-> t, out |-> GenFail]

\* generate_weather_post on the backend's text
ApplyWeatherPost ==
    /\ tr.phase = "in"
    /\ tr' = [tr EXCEPT !.phase = "out", !.fn = "post",
                        !.out = generate_weather_post(GenOk(tr.text))]
    /\ UNCHANGED <<file, last_tweet_id, bound_id, own_latest, next_id, mentions, loop, obs,
                   boot, hist>>

\* generate_reply on the backend's text
ApplyReply ==
    /\ tr.phase = "in"
    /\ tr' = [tr EXCEPT !.phase = "out", !.fn = "reply",
                        !.out = generate_reply(GenOk(tr.text))]
    /\ UNCHANGED <<file, last_tweet_id, bound_id, own_latest, next_id, mentions, loop, obs,
                   boot, hist>>

\* the same generator on its own result
ApplyAgain ==
    /\ tr.phase = "out"
    /\ tr' = [tr EXCEPT !.phase = "again", !.text = tr.out.text,
                        !.out = IF tr.fn = "post"
                                THEN generate_weather_post(tr.out)
                                ELSE generate_reply(tr.out)]
    /\ UNCHANGED <<file, last_tweet_id, bound_id, own_latest, next_id, mentions, loop, obs,
                   boot, hist>>

TruncNext == ApplyWeatherPost \/ ApplyReply \/ ApplyAgain

TruncSpec == TruncInit /\ [][TruncNext]_vars

\* ================================================================ claims
Ran(op) == obs.op = op
FailedStages == {"weather", "generate", "publish"}
\* the id the store holds: what load_last_tweet_id reads from it
Held(f) == load_last_tweet_id(f, TRUE)
\* a step in which job() ran
JobStep == obs' # obs /\ obs'.op = "job"

\* C1 (as stated): after a post cycle that failed at the weather, generation
\* or publish stage the store holds the id it held before; after one whose
\* publish succeeded it holds the newly published id.
C1_StoreFollowsPublish ==
    [][JobStep =>
        /\ obs'.post.stage \in FailedStages => Held(file') = Held(file)
        /\ obs'.post.stage = "done" => Held(file') = obs'.post.ret]_vars

\* C1 (amended): a failed post cycle leaves the stored file as it was; after
\* a successful publish the store holds the new id when the save succeeded,
\* and when the save failed it holds what it held before or nothing readable.
C1_StoreAfterPostCycle ==
    [][JobStep =>
        /\ obs'.post.stage \in FailedStages => file' = file
        /\ obs'.post.stage = "done" /\ obs'.post.save = "ok"
              => Held(file') = obs'.post.ret
        /\ obs'.post.stage = "done" /\ obs'.post.save # "ok"
              => Held(file') \in {Held(file), None}]_vars

\* a publish succeeded, its save failed, and the store still holds the id
\* of an earlier publish
C1_Witness ==
    /\ Ran("job") /\ obs.post.stage = "done" /\ obs.post.save = "openfail"
    /\ file.kind = "valid" /\ file.id # obs.post.ret

\* C2: a post job whose post cycle failed leaves the in-memory id, once set,
\* as it was.
C2_MemoryKeptOnFailure ==
    [][JobStep /\ obs'.post.stage \in FailedStages /\ last_tweet_id # None
          => last_tweet_id' = last_tweet_id]_vars

\* C3: every text handed to the publish call, the weather post and each reply
\* with its "@handle " prefix, is at most 280 characters long.
C3_HandedWithinLimit ==
    /\ obs.post.len <= TweetLimit
    /\ obs.reply.maxlen <= TweetLimit

\* the generator has post-processed the backend's text T (stripped)
Generated == tr.phase = "out"
Stripped == Strip(tr.text)
Result == tr.out.text
Kept == SubSeq(Result, 1, Len(Result) - Len(Ellipsis))

\* C4: a stripped text longer than 280 comes out at most 280 long, ending in
\* "...", the rest being a prefix of the text of length at most 277.
C4_TruncationShape ==
    Generated /\ Len(Stripped) > TweetLimit =>
        /\ Len(Result) <= TweetLimit
        /\ Len(Result) >= Len(Ellipsis)
        /\ SubSeq(Result, Len(Result) - Len(Ellipsis) + 1, Len(Result)) = Ellipsis
        /\ Len(Kept) <= CutLimit
        /\ Kept = SubSeq(Stripped, 1, Len(Kept))

\* a text longer than 280 with a space among its first 277 characters was cut
C4_Witness ==
    /\ Generated /\ Len(Stripped) > TweetLimit
    /\ Len(Kept) < CutLimit /\ Len(Kept) > 0

\* the cut the claim describes: before the last whitespace character among
\* the first 277, and after 277 characters when there is none
WhitespaceCut(T) ==
    LET ws == {i \in 1..CutLimit : IsSpace(T[i])}
    IN  IF ws = {} THEN CutLimit
        ELSE (CHOOSE i \in ws : \A j \in ws : j <= i) - 1

\* C5: a text longer than 280 is cut at its last whitespace boundary at or
\* before position 277, whatever the whitespace character, and at 277 only
\* when there is no such boundary.
C5_CutAtLastWhitespace ==
    Generated /\ Len(Stripped) > TweetLimit => Len(Kept) = WhitespaceCut(Stripped)

\* C6: a text of at most 280 characters comes out unchanged, and the
\* generator applied to its own result returns that result.
C6_ShortUnchangedAndIdempotent ==
    /\ Generated /\ Len(Stripped) <= TweetLimit => Result = Stripped
    /\ tr.phase = "again" => tr.out.ok /\ Result = tr.text

\* the result of cutting a long text went through the generator again
C6_Witness ==
    /\ tr.phase = "again"
    /\ Len(Result) = TweetLimit
    /\ SubSeq(Result, Len(Result) - Len(Ellipsis) + 1, Len(Result)) = Ellipsis

\* C7: in a reply cycle that read mentions, a reply is generated for every
\* mention read, handed to publish for every one whose generation succeeded
\* and published for every one whose publish succeeded, whatever happened to
\* the others.
C7_EveryMentionAttempted ==
    obs.reply.read = "ok" =>
        \A id \in obs.reply.got :
            /\ id \in obs.reply.tried
            /\ obs.reply.how[id] # "genfail" <=> id \in obs.reply.handed
            /\ obs.reply.how[id] = "sent" <=> id \in obs.reply.sent

\* generation failed for the mention handled first, publish failed or
\* succeeded for a later one, and the later one was still answered
C7_Witness ==
    /\ obs.reply.read = "ok"
    /\ \E a, b \in obs.reply.got :
          /\ a > b
          /\ obs.reply.how[a] = "genfail"
          /\ b \in obs.reply.sent

\* C8: with no in-memory id, no id from the own-latest lookup and a store
\* holding X, the baseline of the reply cycle is X.
C8_BaselineFromStore ==
    /\ obs.op \in {"job", "check"}
    /\ obs.reply.arg = None
    /\ get_latest_tweet_id(obs.reply.env.l, own_latest) = None
    /\ file.kind = "valid" /\ obs.reply.env.readable
    => obs.reply.baseline = file.id

\* the lookup raised, the store held an id and mentions were read since it
C8_Witness ==
    /\ obs.op \in {"job", "check"}
    /\ obs.reply.arg = None
    /\ obs.reply.env.l = "fail"
    /\ file.kind = "valid" /\ obs.reply.env.readable
    /\ obs.reply.read = "ok" /\ obs.reply.baseline = file.id

\* C9: a post cycle returns none or the id it published; an id only when the
\* weather lookup, the generation and the publish all succeeded; and nothing
\* is handed to publish when the weather lookup or the generation failed.
C9_PostCycleResult ==
    Ran("job") =>
        /\ obs.post.stage \in FailedStages \cup {"done"}
        /\ obs.post.ret \in 0..MaxId
        /\ obs.post.ret # None <=>
              /\ obs.post.env.w = "ok"
              /\ obs.post.env.g \in PostKinds \ {"fail"}
              /\ obs.post.env.p = "ok"
        /\ obs.post.ret # None => obs.post.ret = own_latest /\ obs.post.handed = 1
        /\ obs.post.env.w = "fail" \/ obs.post.env.g = "fail" <=> obs.post.handed = 0

\* the generation failed after a good weather lookup: no publish, no id
C9_Witness ==
    /\ Ran("job") /\ obs.post.stage = "generate"
    /\ obs.post.env.w = "ok" /\ obs.post.ret = None

\* C10: no fault stops the loop, and both jobs run again and again.
C10_LoopNeverStops ==
    /\ [](loop = "running")
    /\ []<>Ran("job")
    /\ []<>Ran("check")

\* a fault was raised in the dispatch and the loop is still running
C10_Witness == Ran("fault") /\ loop = "running"

\* C11: with one of the six keys missing, the import raises before anything
\* else: no client is built, no job is scheduled, no handler ever runs and
\* nothing is published.
C11_RefusesWithoutSecrets ==
    boot.secrets # Secrets =>
        /\ loop \in {"boot", "exited"}
        /\ boot.stage = "done" => boot.raised = "ValueError" /\ loop = "exited"
        /\ boot.clients = {} /\ boot.scheduled = {}
        /\ obs = Idle
        /\ last_tweet_id = None /\ bound_id = None

\* the import ran with some of the keys set, not all, and the process ended
C11_Witness ==
    /\ boot.stage = "done" /\ loop = "exited"
    /\ boot.secrets # {} /\ boot.secrets # Secrets

\* C15 (as stated): with all the keys set, the import always reaches the
\* scheduler loop, whatever the calls it makes do.
C15_OnlySecretsAbort ==
    boot.stage = "done" /\ boot.secrets = Secrets => loop = "running"

\* C15 (amended): the import ends the process exactly when a key is missing
\* or the construction of a client or get_me fails; otherwise both jobs are
\* scheduled and the loop runs, whatever the state file holds.
C15_ImportFailuresAbort ==
    boot.stage = "done" =>
        /\ loop = "exited" <=>
              \/ boot.secrets # Secrets
              \/ "fail" \in {boot.env.co, boot.env.tw, boot.env.me}
        /\ loop # "exited" => loop = "running" /\ boot.scheduled = Scheduled
        /\ loop = "exited" => boot.scheduled = {} /\ obs = Idle
        /\ boot.env.me = "fail" => boot.raised = "get_me"

\* all keys were set, get_me failed and the process ended
C15_Witness ==
    /\ boot.stage = "done" /\ boot.secrets = Secrets
    /\ boot.env.me = "fail" /\ loop = "exited"

\* C12: load_last_tweet_id gives None for a file that is missing, does not
\* parse or cannot be read; a reply cycle that finds the store like that goes
\* on with what the platform lookup gave, or returns when that is None too,
\* and the loop keeps running.
C12_LoadAbsentNotFatal ==
    /\ \A r \in BOOLEAN : load_last_tweet_id(NoFile, r) = None
                          /\ load_last_tweet_id(Corrupt, r) = None
    /\ \A id \in 1..MaxId : load_last_tweet_id(Stored(id), FALSE) = None
    /\ file.kind # "valid" => Held(file) = None
    /\ /\ obs.op \in {"job", "check"}
       /\ obs.reply.arg = None
       /\ file.kind # "valid" \/ ~obs.reply.env.readable
       => /\ obs.reply.baseline = get_latest_tweet_id(obs.reply.env.l, own_latest)
          /\ obs.reply.read = "skipped" <=> obs.reply.baseline = None
          /\ loop = "running"

\* the file did not parse at startup; the periodic check went on with the
\* account's latest tweet and read the mentions since it
C12_Witness ==
    /\ Ran("check") /\ obs.reply.arg = None
    /\ file = Corrupt
    /\ obs.reply.baseline = own_latest /\ obs.reply.read = "ok"

\* the run has published a weather post: the account's latest tweet has an
\* id the platform handed out after the start
PublishedThisRun == own_latest >= 3

\* C13: once a post cycle of this run has published P, every periodic reply
\* cycle reads the mentions since P.
C13_PeriodicReadsSincePublished ==
    Ran("check") /\ PublishedThisRun => obs.reply.baseline = own_latest

\* C14: while the run has published nothing, the account's latest tweet Y can
\* be looked up and the store holds another id X, every reply cycle reads
\* the mentions since Y.
C14_PlatformBeforeStore ==
    /\ obs.op \in {"job", "check"}
    /\ ~PublishedThisRun
    /\ own_latest # None /\ obs.reply.env.l # "fail"
    /\ file.kind = "valid" /\ file.id # own_latest
    => obs.reply.baseline = own_latest

\* a step in which a reply cycle ran: the periodic one or the one of job()
ReplyStep == obs' # obs /\ obs'.op \in {"job", "check"}

\* C16: a reply cycle called without an id, for which neither the platform
\* lookup nor the store gives one, reads no mentions, generates and publishes
\* nothing and changes nothing: not the file, not the platform, not the id
\* bound to the periodic check.
C16_NoBaselineNoOp ==
    [][/\ ReplyStep
       /\ obs'.reply.arg = None
       /\ get_latest_tweet_id(obs'.reply.env.l, own_latest) = None
       /\ load_last_tweet_id(file, obs'.reply.env.readable) = None
       => /\ obs'.reply.baseline = None /\ obs'.reply.read = "skipped"
          /\ obs'.reply.got = {} /\ obs'.reply.tried = {}
          /\ obs'.reply.handed = {} /\ obs'.reply.sent = {}
          /\ obs'.reply.maxlen = 0
          /\ UNCHANGED <<file, bound_id, own_latest, next_id, mentions>>
          /\ obs'.op = "check" => UNCHANGED last_tweet_id
          /\ loop' = "running"]_vars

\* the periodic check found no baseline while a mention was waiting
C16_Witness ==
    /\ Ran("check") /\ obs.reply.arg = None /\ obs.reply.read = "skipped"
    /\ mentions # {}

\* C17: when the publish succeeds with id P and the save fails, the post
\* cycle still returns P, job() holds P in memory, and the reply cycle of
\* the same job reads the mentions since P.
C17_PublishedIdKeptWhenSaveFails ==
    /\ Ran("job") /\ obs.post.stage = "done"
    /\ obs.post.save \in {"openfail", "writefail"}
    => /\ obs.post.ret # None /\ obs.post.ret = own_latest
       /\ last_tweet_id = obs.post.ret
       /\ obs.reply.arg = obs.post.ret /\ obs.reply.baseline = obs.post.ret
       /\ obs.reply.read \in {"ok", "failed"}
       /\ Held(file) # obs.post.ret
       /\ loop = "running"

\* the dump failed after the publish, and the reply cycle of the job read
\* the mentions since the published id
C17_Witness ==
    /\ Ran("job") /\ obs.post.save = "writefail" /\ file = Corrupt
    /\ obs.reply.read = "ok" /\ obs.reply.baseline = own_latest
    /\ last_tweet_id = own_latest

\* C18: a periodic reply cycle, whatever it reads and publishes, leaves the
\* file and the id held in memory as they were; they change only in a step of
\* job(), where they are what the post cycle left, whatever the reply cycle of
\* the job did.
C18_OnlyPostCycleWrites ==
    [][/\ obs' # obs /\ obs'.op = "check"
          => file' = file /\ last_tweet_id' = last_tweet_id
       /\ file' # file \/ last_tweet_id' # last_tweet_id => JobStep
       /\ JobStep =>
             /\ last_tweet_id' = obs'.post.ret
             /\ file' = IF obs'.post.stage = "done"
                        THEN save_last_tweet_id(file, obs'.post.ret, obs'.post.save)
                        ELSE file]_vars

\* a periodic check answered a mention, reading since an id that is not the
\* one held in memory
C18_Witness ==
    /\ Ran("check") /\ obs.reply.sent # {}
    /\ last_tweet_id # None /\ obs.reply.baseline # last_tweet_id

C20_RepliedAtMostOnce == hist.again = {}

====
